---------------------------- MODULE Spec2Model ----------------------------
(***************************************************************************)
(* Report generation of the cryptocurrency market analysis bot: the signal *)
(* deriver generateBuySellHold (one copy in document_generator.js, one in  *)
(* presentation_generator.js), the word document assembler createDocument  *)
(* / generateWordReport and the slide assembler generatePresentation.      *)
(*                                                                         *)
(* Strings are sequences of one-character strings, so that                 *)
(* String.prototype.includes is a real substring search.  Numbers are      *)
(* fixed point, in thousandths: an RSI of 29.99 is 29990.                  *)
(***************************************************************************)
EXTENDS Integers, Sequences, FiniteSets, TLC

VARIABLES
    data,        \* the bundle handed to both generators (one shared object)
    chartOnDisk, \* fs.existsSync(chart_path)
    docCall,     \* frame of the last generateBuySellHold call, document copy
    pptCall,     \* frame of the last generateBuySellHold call, slide copy
    docPc,       \* position of generateWordReport
    doc,         \* children of the section of the Document createDocument built
    docFile,     \* the file at generateWordReport's outputPath
    pptPc,       \* position of generatePresentation
    html,        \* /home/claude/slide1.html .. slide8.html
    deck,        \* slides of the pptxgen object, in the order they were added
    deckFile,    \* the file at generatePresentation's outputPath
    unlinkErrors, \* the slide files whose fs.unlinkSync threw in the clean-up
    log,         \* the messages written with console.log, in order
    attempts,    \* how often each back-end call was made
    rejection,   \* what each generator's promise was rejected with
    other        \* a second invocation of generatePresentation

vars ==
    <<data, chartOnDisk, docCall, pptCall, docPc, doc, docFile,
      pptPc, html, deck, deckFile, unlinkErrors, log, attempts, rejection,
      other>>

renderVars ==
    <<chartOnDisk, docPc, doc, docFile, pptPc, html, deck, deckFile,
      unlinkErrors, log, attempts, rejection, other>>

---------------------------------------------------------------------------
(* Bounds of the model *)

\* longest suggestion list a bundle holds
MaxSuggestions == 2

\* longest exchange list a bundle holds
MaxExchanges == 3

\* most slide files whose unlink fails in one clean-up
MaxUnlinkErrors == 1

---------------------------------------------------------------------------
(* String literals of the source *)

\* "BULLISH"
BULLISH ==
    <<"B", "U", "L", "L", "I", "S", "H">>
\* "Golden Cross"
GoldenCross ==
    <<"G", "o", "l", "d", "e", "n", " ", "C", "r", "o", "s", "s">>
\* "oversold"
oversold ==
    <<"o", "v", "e", "r", "s", "o", "l", "d">>
\* "BEARISH"
BEARISH ==
    <<"B", "E", "A", "R", "I", "S", "H">>
\* "Death Cross"
DeathCross ==
    <<"D", "e", "a", "t", "h", " ", "C", "r", "o", "s", "s">>
\* "overbought"
overbought ==
    <<"o", "v", "e", "r", "b", "o", "u", "g", "h", "t">>

---------------------------------------------------------------------------
(* Suggestion strings the bundles are drawn from *)

\* "BULLISH crossover"
sugBullishCrossover ==
    <<"B", "U", "L", "L", "I", "S", "H", " ", "c", "r", "o", "s", "s", "o",
      "v", "e", "r">>
\* "Death Cross warning"
sugDeathCrossWarning ==
    <<"D", "e", "a", "t", "h", " ", "C", "r", "o", "s", "s", " ", "w", "a",
      "r", "n", "i", "n", "g">>
\* "Golden Cross confirmed"
sugGoldenCrossConfirmed ==
    <<"G", "o", "l", "d", "e", "n", " ", "C", "r", "o", "s", "s", " ", "c",
      "o", "n", "f", "i", "r", "m", "e", "d">>
\* "MOMENTUM: not overbought or oversold"
sugMomentum ==
    <<"M", "O", "M", "E", "N", "T", "U", "M", ":", " ", "n", "o", "t", " ",
      "o", "v", "e", "r", "b", "o", "u", "g", "h", "t", " ", "o", "r", " ",
      "o", "v", "e", "r", "s", "o", "l", "d">>
\* "BEARISH divergence"
sugBearishDivergence ==
    <<"B", "E", "A", "R", "I", "S", "H", " ", "d", "i", "v", "e", "r", "g",
      "e", "n", "c", "e">>
\* "BULLISH Golden Cross"
sugTwoBullish ==
    <<"B", "U", "L", "L", "I", "S", "H", " ", "G", "o", "l", "d", "e", "n",
      " ", "C", "r", "o", "s", "s">>
\* "bullish signal"
sugLowerCase ==
    <<"b", "u", "l", "l", "i", "s", "h", " ", "s", "i", "g", "n", "a", "l">>

SuggestionPool ==
    { sugBullishCrossover, sugDeathCrossWarning, sugGoldenCrossConfirmed,
      sugMomentum, sugBearishDivergence, sugTwoBullish, sugLowerCase }

\* every list of at most n elements of S
SeqsUpTo(S, n) ==
    UNION { [1..k -> S] : k \in 0..n }

\* RSI values, in thousandths: 0, 29.99, 29.996, 30, 50, 70, 70.01, 100
RSIValues ==
    { 0, 29990, 29996, 30000, 50000, 70000, 70010, 100000 }

\* close prices, in thousandths
CloseValues ==
    { 95000500, 110059990 }

\* (SMA_short, SMA_long) pairs, in thousandths: above, equal, below
SMAPairs ==
    { <<105000000, 98000000>>, <<98000000, 98000000>>, <<98000000, 105000000>> }

---------------------------------------------------------------------------
(* Library functions of the language *)

\* String.prototype.includes: case-sensitive substring search
includes(s, m) ==
    \E i \in 0..(Len(s) - Len(m)) : SubSeq(s, i + 1, i + Len(m)) = m

\* the value of a property the bundle does not hold
undefined ==
    0 - 1

\* mutant: a >= b
greaterThan_orEqual(a, b) ==
    a # undefined /\ b # undefined /\ a >= b

\* a > b on numbers: false when either side is undefined (NaN)
greaterThan(a, b) ==
    a # undefined /\ b # undefined /\ a > b

\* Number.prototype.toFixed on a number in thousandths: the decimal with
\* `digits` fraction digits nearest to x, as its count of 10^-digits units
toFixed(x, digits) ==
    LET unit == IF digits = 0 THEN 1000 ELSE IF digits = 1 THEN 100
                ELSE IF digits = 2 THEN 10 ELSE 1
    IN  [digits |-> digits, units |-> (2 * x + unit) \div (2 * unit)]

---------------------------------------------------------------------------
(* generateBuySellHold *)

\* mutant: the bullish test also matches the lower-case word
isBullishSuggestion_anyCase(s) ==
    \/ includes(s, BULLISH) \/ includes(s, GoldenCross) \/ includes(s, oversold)
    \/ includes(s, <<"b", "u", "l", "l", "i", "s", "h">>)

\* the test of the first `if` of the forEach callback
isBullishSuggestion(s) ==
    includes(s, BULLISH) \/ includes(s, GoldenCross) \/ includes(s, oversold)

\* the test of the second `if` of the forEach callback
isBearishSuggestion(s) ==
    includes(s, BEARISH) \/ includes(s, DeathCross) \/ includes(s, overbought)

\* mutant: the second test is an `else if`, so a suggestion counts for one
\* side only
countSuggestion_elseIf(s, counts) ==
    IF isBullishSuggestion(s)
    THEN [counts EXCEPT !.bullish_signals = @ + 1]
    ELSE IF isBearishSuggestion(s)
    THEN [counts EXCEPT !.bearish_signals = @ + 1]
    ELSE counts

\* the forEach callback: each `if` increments its counter by one
countSuggestion(s, counts) ==
    [bullish_signals |-> counts.bullish_signals
                           + (IF isBullishSuggestion(s) THEN 1 ELSE 0),
     bearish_signals |-> counts.bearish_signals
                           + (IF isBearishSuggestion(s) THEN 1 ELSE 0)]

RECURSIVE forEachSuggestion(_, _, _)
\* suggestions.forEach from index i on, with the counters so far
forEachSuggestion(suggestions, i, counts) ==
    IF i > Len(suggestions) THEN counts
    ELSE forEachSuggestion(suggestions, i + 1,
                           countSuggestion(suggestions[i], counts))

\* the counters after the loop
countSignals(suggestions) ==
    forEachSuggestion(suggestions, 1,
                      [bullish_signals |-> 0, bearish_signals |-> 0])

\* mutant: the SELL test comes first
decide_sellFirst(rsi, bullish_signals, bearish_signals) ==
    IF rsi > 70000 \/ bearish_signals > bullish_signals THEN "SELL"
    ELSE IF rsi < 30000 \/ bullish_signals > bearish_signals THEN "BUY"
    ELSE "HOLD"

\* mutant: the RSI thresholds are inclusive
decide_inclusive(rsi, bullish_signals, bearish_signals) ==
    IF rsi <= 30000 \/ bullish_signals > bearish_signals THEN "BUY"
    ELSE IF rsi >= 70000 \/ bearish_signals > bullish_signals THEN "SELL"
    ELSE "HOLD"

\* mutant: equal counters count as bullish
decide_tieBuys(rsi, bullish_signals, bearish_signals) ==
    IF rsi < 30000 \/ bullish_signals >= bearish_signals THEN "BUY"
    ELSE IF rsi > 70000 \/ bearish_signals > bullish_signals THEN "SELL"
    ELSE "HOLD"

\* mutant: SELL when the two tests both succeed
decide_sellOnConflict(rsi, bullish_signals, bearish_signals) ==
    LET buy  == rsi < 30000 \/ bullish_signals > bearish_signals
        sell == rsi > 70000 \/ bearish_signals > bullish_signals
    IN  IF sell /\ buy THEN "SELL"
        ELSE IF buy THEN "BUY"
        ELSE IF sell THEN "SELL"
        ELSE "HOLD"

\* which branch of the if / else if / else chain is taken
decide(rsi, bullish_signals, bearish_signals) ==
    IF rsi < 30000 \/ bullish_signals > bearish_signals THEN "BUY"
    ELSE IF rsi > 70000 \/ bearish_signals > bullish_signals THEN "SELL"
    ELSE "HOLD"

\* the object returned by the document copy
docSignalOf(recommendation, rsi) ==
    CASE recommendation = "BUY" ->
           [recommendation |-> "BUY", color |-> "27AE60",
            reasoning |-> [pre  |-> "Strong bullish signals detected. RSI at ",
                           rsi  |-> toFixed(rsi, 2),
                           post |-> " suggests potential upside. Consider accumulating positions."]]
      [] recommendation = "SELL" ->
           [recommendation |-> "SELL", color |-> "E74C3C",
            reasoning |-> [pre  |-> "Bearish signals present. RSI at ",
                           rsi  |-> toFixed(rsi, 2),
                           post |-> " indicates overbought conditions. Consider taking profits."]]
      [] OTHER ->
           [recommendation |-> "HOLD", color |-> "F39C12",
            reasoning |-> [pre  |-> "Mixed signals. RSI at ",
                           rsi  |-> toFixed(rsi, 2),
                           post |-> " is neutral. Maintain current positions and monitor."]]

\* the object returned by the slide copy
pptSignalOf(recommendation, rsi) ==
    CASE recommendation = "BUY" ->
           [recommendation |-> "BUY", color |-> "#27AE60",
            reasoning |-> [pre  |-> "Strong bullish signals detected. RSI at ",
                           rsi  |-> toFixed(rsi, 2),
                           post |-> " suggests potential upside."]]
      [] recommendation = "SELL" ->
           [recommendation |-> "SELL", color |-> "#E74C3C",
            reasoning |-> [pre  |-> "Bearish signals present. RSI at ",
                           rsi  |-> toFixed(rsi, 2),
                           post |-> " indicates overbought conditions."]]
      [] OTHER ->
           [recommendation |-> "HOLD", color |-> "#F39C12",
            reasoning |-> [pre  |-> "Mixed signals. RSI at ",
                           rsi  |-> toFixed(rsi, 2),
                           post |-> " is neutral. Monitor and wait."]]

\* mutant: ma_bullish, which the code computes and never reads, counts as one
\* more bullish signal
docGenerateBuySellHold_maAligned(suggestions, latest_data) ==
    LET counts     == countSignals(suggestions)
        rsi        == latest_data.RSI
        ma_bullish == latest_data.SMA_short > latest_data.SMA_long
        bullish    == counts.bullish_signals + (IF ma_bullish THEN 1 ELSE 0)
    IN  [called          |-> TRUE,
         bullish_signals |-> bullish,
         bearish_signals |-> counts.bearish_signals,
         rsi             |-> rsi,
         ma_bullish      |-> ma_bullish,
         ret |-> docSignalOf(decide(rsi, bullish, counts.bearish_signals),
                             rsi)]

\* document_generator.js generateBuySellHold: its locals and return value
docGenerateBuySellHold(suggestions, latest_data) ==
    LET counts     == countSignals(suggestions)
        rsi        == latest_data.RSI
        ma_bullish == greaterThan(latest_data.SMA_short,
                                  latest_data.SMA_long)
    IN  [called          |-> TRUE,
         bullish_signals |-> counts.bullish_signals,
         bearish_signals |-> counts.bearish_signals,
         rsi             |-> rsi,
         ma_bullish      |-> ma_bullish,
         ret |-> docSignalOf(decide(rsi, counts.bullish_signals,
                                    counts.bearish_signals), rsi)]

\* mutant: the slide copy has inclusive RSI thresholds
pptGenerateBuySellHold_inclusive(suggestions, latest_data) ==
    LET counts == countSignals(suggestions)
        rsi    == latest_data.RSI
    IN  [called          |-> TRUE,
         bullish_signals |-> counts.bullish_signals,
         bearish_signals |-> counts.bearish_signals,
         rsi             |-> rsi,
         ret |-> pptSignalOf(decide_inclusive(rsi, counts.bullish_signals,
                                              counts.bearish_signals), rsi)]

\* presentation_generator.js generateBuySellHold: its locals and return value
pptGenerateBuySellHold(suggestions, latest_data) ==
    LET counts == countSignals(suggestions)
        rsi    == latest_data.RSI
    IN  [called          |-> TRUE,
         bullish_signals |-> counts.bullish_signals,
         bearish_signals |-> counts.bearish_signals,
         rsi             |-> rsi,
         ret |-> pptSignalOf(decide(rsi, counts.bullish_signals,
                                    counts.bearish_signals), rsi)]

\* no call made yet
NoCall ==
    [called |-> FALSE]

---------------------------------------------------------------------------
(* Bundles the renderers are run on *)

\* ExchangeInfo records; binance, kucoin, bybit and gate as in generate_pptx.js
binance ==
    [name |-> "binance", total_spot_pairs |-> 1593, usdt_quoted_pairs |-> 434,
     supports_fetchOHLCV |-> TRUE, rate_limit_ms |-> 50]

kucoin ==
    [name |-> "kucoin", total_spot_pairs |-> 1311, usdt_quoted_pairs |-> 1081,
     supports_fetchOHLCV |-> TRUE, rate_limit_ms |-> 10]

bybit ==
    [name |-> "bybit", total_spot_pairs |-> 685, usdt_quoted_pairs |-> 510,
     supports_fetchOHLCV |-> TRUE, rate_limit_ms |-> 20]

gate ==
    [name |-> "gate", total_spot_pairs |-> 2602, usdt_quoted_pairs |-> 2450,
     supports_fetchOHLCV |-> TRUE, rate_limit_ms |-> 50]

\* an exchange without candle data whose USDT count ties with bybit's
okx ==
    [name |-> "okx", total_spot_pairs |-> 720, usdt_quoted_pairs |-> 510,
     supports_fetchOHLCV |-> FALSE, rate_limit_ms |-> 100]

ExchangePool ==
    { binance, kucoin, bybit, gate, okx }

\* every list of 1..n distinct exchanges, in every order
ExchangeLists(n) ==
    { l \in SeqsUpTo(ExchangePool, n) :
        /\ Len(l) >= 1
        /\ \A i, j \in 1..Len(l) : i # j => l[i] # l[j] }

\* suggestion lists of the rendered bundles
RenderSuggestionLists ==
    { <<>>,
      <<sugGoldenCrossConfirmed>>,
      <<sugBullishCrossover, sugDeathCrossWarning>>,
      <<sugMomentum, sugBearishDivergence>> }

\* RSI values of the rendered bundles, in thousandths
RenderRSIValues ==
    { 29990, 50000 }

---------------------------------------------------------------------------
(* Library functions used by the renderers *)

\* the decimal digit d as a character
digitChar(d) ==
    <<"0", "1", "2", "3", "4", "5", "6", "7", "8", "9">>[d + 1]

RECURSIVE numberToString(_)
\* Number.prototype.toString / template interpolation of a natural number
numberToString(n) ==
    IF n < 10 THEN <<digitChar(n)>>
    ELSE Append(numberToString(n \div 10), digitChar(n % 10))

\* the comparator (a, b) => b.usdt_quoted_pairs - a.usdt_quoted_pairs
compareUsdt(a, b) ==
    b.usdt_quoted_pairs - a.usdt_quoted_pairs

RECURSIVE insertStable(_, _)
\* x put into the sorted list l behind every element that does not sort after it
insertStable(l, x) ==
    IF l = <<>> THEN <<x>>
    ELSE IF compareUsdt(l[Len(l)], x) <= 0 THEN Append(l, x)
    ELSE Append(insertStable(SubSeq(l, 1, Len(l) - 1), x), l[Len(l)])

RECURSIVE sortFrom(_, _, _)
\* the first i - 1 elements of results are sorted in acc
sortFrom(results, i, acc) ==
    IF i > Len(results) THEN acc
    ELSE sortFrom(results, i + 1, insertStable(acc, results[i]))

\* Array.prototype.sort with compareUsdt: stable, and in place
sortByUsdt(results) ==
    sortFrom(results, 1, <<>>)

---------------------------------------------------------------------------
(* document_generator.js: createDocument and its helpers *)

\* one data row per exchange, in the order of `results`, behind the header row
createExchangeTable(results) ==
    <<[kind |-> "table",
       rows |-> <<[header |-> TRUE,
                   cells  |-> <<"Exchange", "Spot Pairs", "USDT Pairs",
                                "OHLCV Data">>]>>
                 \o [i \in 1..Len(results) |->
                      [header |-> FALSE,
                       name   |-> results[i].name,
                       total  |-> numberToString(results[i].total_spot_pairs),
                       usdt   |-> numberToString(results[i].usdt_quoted_pairs),
                       ohlcv  |-> IF results[i].supports_fetchOHLCV
                                  THEN [text |-> "yes", color |-> "27AE60"]
                                  ELSE [text |-> "no", color |-> "E74C3C"]]]]>>

\* mutant: the 'also viable' bullets are not filtered by the OHLCV flag
filterOHLCV_all(results) ==
    results

\* results.filter(r => r.supports_fetchOHLCV)
filterOHLCV(results) ==
    SelectSeq(results, LAMBDA r : r.supports_fetchOHLCV)

\* the bullets createExchangeRecommendations returns for the sorted list
exchangeBullets(sorted) ==
    LET best   == sorted[1]
        viable == SelectSeq(filterOHLCV(sorted),
                            LAMBDA ex : ex.name # best.name)
    IN  <<[kind |-> "bullet", role |-> "best", name |-> best.name,
           usdt |-> numberToString(best.usdt_quoted_pairs)]>>
        \o [i \in 1..Len(viable) |->
             [kind |-> "bullet", role |-> "viable", name |-> viable[i].name,
              usdt |-> numberToString(viable[i].usdt_quoted_pairs)]]

\* createExchangeRecommendations: the bullets, and `results` as the in-place
\* sort leaves it
createExchangeRecommendations(results) ==
    LET sorted == sortByUsdt(results)
    IN  [results |-> sorted, recommendations |-> exchangeBullets(sorted)]

\* "SIGNAL"
SIGNAL ==
    <<"S", "I", "G", "N", "A", "L">>
\* "TREND"
TREND ==
    <<"T", "R", "E", "N", "D">>
\* "WARNING"
WARNING ==
    <<"W", "A", "R", "N", "I", "N", "G">>
\* "OPPORTUNITY"
OPPORTUNITY ==
    <<"O", "P", "P", "O", "R", "T", "U", "N", "I", "T", "Y">>

\* the heading of one suggestion: three ifs in sequence, the last one taken wins
technicalHeading(suggestion) ==
    LET isTrend       == includes(suggestion, TREND)
        isWarning     == includes(suggestion, WARNING)
        isOpportunity == includes(suggestion, OPPORTUNITY)
        h0 == "Technical Signal"
        h1 == IF isWarning THEN "Warning" ELSE h0
        h2 == IF isOpportunity THEN "Opportunity" ELSE h1
    IN  IF isTrend THEN "Current Trend" ELSE h2

RECURSIVE technicalFrom_paragraphFirst(_, _, _)
\* mutant: the paragraph of a suggestion is pushed before its heading
technicalFrom_paragraphFirst(suggestions, i, paragraphs) ==
    IF i > Len(suggestions) THEN paragraphs
    ELSE technicalFrom_paragraphFirst(suggestions, i + 1,
           paragraphs
           \o <<[kind |-> "paragraph", text |-> suggestions[i]],
                [kind |-> "heading3",
                 text |-> technicalHeading(suggestions[i])]>>)

RECURSIVE technicalFrom(_, _, _)
\* suggestions.forEach from index i on: a heading and a paragraph are pushed
technicalFrom(suggestions, i, paragraphs) ==
    IF i > Len(suggestions) THEN paragraphs
    ELSE technicalFrom(suggestions, i + 1,
           paragraphs
           \o <<[kind |-> "heading3",
                 text |-> technicalHeading(suggestions[i])],
                [kind |-> "paragraph", text |-> suggestions[i]]>>)

\* mutant: the technical analysis ends with a page break of its own
createTechnicalAnalysis_ownPage(suggestions) ==
    technicalFrom(suggestions, 1, <<>>) \o <<[kind |-> "pagebreak"]>>

\* createTechnicalAnalysis: the blocks of all suggestions, in order
createTechnicalAnalysis(suggestions) ==
    technicalFrom(suggestions, 1, <<>>)

\* the fixed educational blocks, each by its kind and its leading text
createEducationalContent ==
    <<[kind |-> "heading2", text |-> "Moving Averages (MA)"],
      [kind |-> "paragraph", text |-> "Moving averages smooth out price data"],
      [kind |-> "bullet", text |-> "50-Day MA (Short-term): "],
      [kind |-> "bullet", text |-> "200-Day MA (Long-term): "],
      [kind |-> "heading3", text |-> "Golden Cross & Death Cross"],
      [kind |-> "bullet", text |-> "Golden Cross: "],
      [kind |-> "bullet", text |-> "Death Cross: "],
      [kind |-> "heading2", text |-> "Relative Strength Index (RSI)"],
      [kind |-> "paragraph", text |-> "RSI measures momentum"],
      [kind |-> "bullet", text |-> "RSI > 70: "],
      [kind |-> "bullet", text |-> "RSI < 30: "],
      [kind |-> "bullet", text |-> "RSI 30-70: "],
      [kind |-> "heading2", text |-> "Bollinger Bands"],
      [kind |-> "paragraph", text |-> "Bollinger Bands measure volatility"],
      [kind |-> "bullet", text |-> "Upper Band: "],
      [kind |-> "bullet", text |-> "Lower Band: "],
      [kind |-> "bullet", text |-> "Band Squeeze: "],
      [kind |-> "heading2", text |-> "Risk Management Tips"],
      [kind |-> "bullet", text |-> "Never invest more than you can afford to lose"],
      [kind |-> "bullet", text |-> "Diversify across multiple assets"],
      [kind |-> "bullet", text |-> "Use stop-loss orders"],
      [kind |-> "bullet", text |-> "Technical analysis is not foolproof"],
      [kind |-> "bullet", text |-> "Consider market sentiment"]>>

\* the key metrics table of the executive summary
metricsTable(latest_data) ==
    [kind |-> "metrics",
     price     |-> toFixed(latest_data.close, 2),
     rsi       |-> toFixed(latest_data.RSI, 2),
     sma_short |-> toFixed(latest_data.SMA_short, 2),
     sma_long  |-> toFixed(latest_data.SMA_long, 2),
     trend     |-> IF greaterThan(latest_data.SMA_short,
                                  latest_data.SMA_long)
                   THEN [text |-> "Bullish up", color |-> "27AE60"]
                   ELSE [text |-> "Bearish down", color |-> "E74C3C"]]

\* the image paragraph, or the italic placeholder when the file is missing
chartBlock(exists) ==
    IF exists THEN <<[kind |-> "image", alt |-> "Price Chart"]>>
    ELSE <<[kind |-> "paragraph", italics |-> TRUE,
            text |-> "Chart generation pending..."]>>

PageBreak ==
    [kind |-> "pagebreak"]

\* createDocument: the children of the section, in the order the array literal
\* evaluates them, and exchange_results as createExchangeRecommendations
\* leaves it.  The table is built before the list is sorted.
createDocument(d, exists) ==
    LET signal == docGenerateBuySellHold(d.suggestions, d.latest_data)
        table  == createExchangeTable(d.exchange_results)
        recs   == createExchangeRecommendations(d.exchange_results)
    IN  [signal |-> signal,
         exchange_results |-> recs.results,
         children |->
           <<[kind |-> "title", text |-> "Cryptocurrency Market Analysis Report"],
             [kind |-> "subtitle", text |-> d.symbol],
             [kind |-> "heading1", text |-> "Executive Summary"],
             [kind |-> "recommendation",
              text |-> signal.ret.recommendation, color |-> signal.ret.color],
             [kind |-> "paragraph", text |-> signal.ret.reasoning],
             [kind |-> "heading2", text |-> "Current Market Metrics"],
             metricsTable(d.latest_data),
             PageBreak,
             [kind |-> "heading1", text |-> "Exchange Comparison"],
             [kind |-> "paragraph", text |-> "Based on our analysis"]>>
           \o table
           \o <<[kind |-> "heading2", text |-> "Recommended Exchanges"]>>
           \o recs.recommendations
           \o <<PageBreak,
                [kind |-> "heading1", text |-> "Detailed Technical Analysis"]>>
           \o createTechnicalAnalysis(d.suggestions)
           \o <<[kind |-> "heading2", text |-> "Price Chart"]>>
           \o chartBlock(exists)
           \o <<PageBreak,
                [kind |-> "heading1",
                 text |-> "Understanding Technical Indicators"],
                [kind |-> "paragraph", text |-> "This section explains"]>>
           \o createEducationalContent]

---------------------------------------------------------------------------
(* presentation_generator.js: the markup of the eight slides *)

UpperCase ==
    { "A", "B", "C", "D", "E", "F", "G", "H", "I", "J", "K", "L", "M",
      "N", "O", "P", "Q", "R", "S", "T", "U", "V", "W", "X", "Y", "Z" }

\* length of the run of capital letters s starts with
upperRun(s) ==
    LET stops == { i \in 1..Len(s) : s[i] \notin UpperCase }
    IN  IF stops = {} THEN Len(s)
        ELSE (CHOOSE i \in stops : \A j \in stops : i <= j) - 1

\* s.replace(/^[A-Z]+: /, ''): a leading run of capitals followed by ": " is cut
stripLabel(s) ==
    LET k == upperRun(s)
    IN  IF k >= 1 /\ Len(s) >= k + 2 /\ s[k + 1] = ":" /\ s[k + 2] = " "
        THEN SubSeq(s, k + 3, Len(s))
        ELSE s

\* mutant: WARNING is asked for before BULLISH and BEARISH
bulletType_warningFirst(s) ==
    IF includes(s, WARNING) THEN "warning sign"
    ELSE IF includes(s, BULLISH) THEN "green circle"
    ELSE IF includes(s, BEARISH) THEN "red circle"
    ELSE "chart"

\* the emoji of a bullet: a chain of conditional expressions
bulletType(s) ==
    IF includes(s, BULLISH) THEN "green circle"
    ELSE IF includes(s, BEARISH) THEN "red circle"
    ELSE IF includes(s, WARNING) THEN "warning sign"
    ELSE "chart"

\* exchange_results.map(ex => `<tr>...</tr>`): one row per exchange, in order
exchangeTableRows(exchange_results) ==
    [i \in 1..Len(exchange_results) |->
       [name  |-> exchange_results[i].name,
        total |-> numberToString(exchange_results[i].total_spot_pairs),
        usdt  |-> numberToString(exchange_results[i].usdt_quoted_pairs),
        ohlcv |-> IF exchange_results[i].supports_fetchOHLCV
                  THEN "yes" ELSE "no"]]

slide1HTML(d) ==
    [kind |-> "title", symbol |-> d.symbol]

slide2HTML(d, signal) ==
    [kind |-> "executive_summary",
     color          |-> signal.color,
     recommendation |-> signal.recommendation,
     price          |-> toFixed(d.latest_data.close, 2),
     rsi            |-> toFixed(d.latest_data.RSI, 0),
     rsi_color      |-> IF d.latest_data.RSI > 70000 THEN "#E74C3C"
                        ELSE IF d.latest_data.RSI < 30000 THEN "#27AE60"
                        ELSE "#3498DB",
     trend          |-> IF greaterThan(d.latest_data.SMA_short,
                                       d.latest_data.SMA_long)
                        THEN [text |-> "up", color |-> "#27AE60"]
                        ELSE [text |-> "down", color |-> "#E74C3C"],
     reasoning      |-> signal.reasoning]

\* the table is exchange_results in the order given; the sentence names
\* exchange_results[0]
slide3HTML(d) ==
    [kind |-> "exchange_comparison",
     rows |-> exchangeTableRows(d.exchange_results),
     best |-> [name |-> d.exchange_results[1].name,
               usdt |-> numberToString(d.exchange_results[1].usdt_quoted_pairs)]]

slide4HTML(d) ==
    [kind |-> "technical_analysis",
     bullets |-> [i \in 1..Len(d.suggestions) |->
                    [type |-> bulletType(d.suggestions[i]),
                     text |-> stripLabel(d.suggestions[i])]]]

slide5HTML ==
    [kind |-> "chart", placeholder |-> TRUE]

slide6HTML(d) ==
    [kind |-> "ma_education",
     sma_short |-> toFixed(d.latest_data.SMA_short, 2),
     sma_long  |-> toFixed(d.latest_data.SMA_long, 2)]

slide7HTML(d) ==
    [kind |-> "rsi_education",
     rsi       |-> toFixed(d.latest_data.RSI, 2),
     rsi_color |-> IF d.latest_data.RSI > 70000 THEN "#E74C3C"
                   ELSE IF d.latest_data.RSI < 30000 THEN "#27AE60"
                   ELSE "#F39C12"]

slide8HTML ==
    [kind |-> "risk_disclaimer"]

\* a path with no file
NoFile ==
    [kind |-> "absent"]

\* the eight fs.writeFileSync calls: slideN.html holds slideNHTML
writeSlides(d, signal) ==
    [i \in 1..8 |->
       CASE i = 1 -> slide1HTML(d)
         [] i = 2 -> slide2HTML(d, signal)
         [] i = 3 -> slide3HTML(d)
         [] i = 4 -> slide4HTML(d)
         [] i = 5 -> slide5HTML
         [] i = 6 -> slide6HTML(d)
         [] i = 7 -> slide7HTML(d)
         [] OTHER -> slide8HTML]

\* mutant: the chart slide is converted before the technical analysis slide
slideFile_chartFirst(k) ==
    IF k = 4 THEN 5 ELSE IF k = 5 THEN 4 ELSE k

\* the file the k-th html2pptx call converts
slideFile(k) ==
    k

\* mutant: the image is added without asking whether the chart file exists
addsImage_unchecked(k, exists) ==
    k = 5

\* whether the slide of the k-th html2pptx call gets the chart image
addsImage(k, exists) ==
    k = 5 /\ exists

---------------------------------------------------------------------------
(* The two generators on one bundle: Spec *)

\* no back-end call has been made
NoAttempts ==
    [pack |-> 0, docWrite |-> 0, convert |-> [i \in 1..8 |-> 0],
     deckWrite |-> 0]

\* neither promise is rejected
NoRejection ==
    [doc |-> "none", ppt |-> "none"]

\* the bundle of the second invocation of generatePresentation
otherBundle ==
    [symbol |-> "ETH/USDT",
     exchange_results |-> <<gate, bybit>>,
     suggestions |-> <<sugBearishDivergence>>,
     latest_data |-> [close |-> 3905120, RSI |-> 71500,
                      SMA_short |-> 3800000, SMA_long |-> 4100000],
     chart_path |-> "chart.png"]

\* generatePresentation is called once only
NotInvoked ==
    [pc |-> "none", data |-> otherBundle, deck |-> <<>>, deckFile |-> NoFile]

Init ==
    /\ \E exs \in ExchangeLists(MaxExchanges),
          sugs \in RenderSuggestionLists,
          r \in RenderRSIValues :
          data = [symbol |-> "BTC/USDT",
                  exchange_results |-> exs,
                  suggestions |-> sugs,
                  latest_data |-> [close |-> 110059990, RSI |-> r,
                                   SMA_short |-> 105000000,
                                   SMA_long |-> 98000000],
                  chart_path |-> "chart.png"]
    /\ chartOnDisk \in BOOLEAN
    /\ docCall = NoCall
    /\ pptCall = NoCall
    /\ docPc = "idle"
    /\ doc = <<>>
    /\ docFile = NoFile
    /\ pptPc = "idle"
    /\ html = [i \in 1..8 |-> NoFile]
    /\ deck = <<>>
    /\ deckFile = NoFile
    /\ unlinkErrors = {}
    /\ log = <<>>
    /\ attempts = NoAttempts
    /\ rejection = NoRejection
    /\ other = NotInvoked

\* createDocument throws a TypeError: generateBuySellHold calls rsi.toFixed,
\* the metrics table calls toFixed on close, RSI, SMA_short and SMA_long, and
\* createExchangeRecommendations reads best.name of an empty list
docThrows(d) ==
    \/ d.latest_data.RSI = undefined
    \/ d.latest_data.close = undefined
    \/ d.latest_data.SMA_short = undefined
    \/ d.latest_data.SMA_long = undefined
    \/ Len(d.exchange_results) = 0

\* generateWordReport up to its await: createDocument runs to completion and
\* Packer.toBuffer is started; when createDocument throws, the promise is
\* rejected and nothing else happens
DocCreate ==
    /\ docPc = "idle"
    /\ IF docThrows(data)
       THEN /\ docCall' = IF data.latest_data.RSI = undefined THEN docCall
                          ELSE docGenerateBuySellHold(data.suggestions,
                                                      data.latest_data)
            /\ docPc' = "rejected"
            /\ rejection' = [rejection EXCEPT !.doc = "TypeError"]
            /\ UNCHANGED <<doc, data, attempts>>
       ELSE /\ LET built == createDocument(data, chartOnDisk)
               IN  /\ docCall' = built.signal
                   /\ doc' = built.children
                   /\ data' = [data EXCEPT
                                 !.exchange_results = built.exchange_results]
            /\ docPc' = "packing"
            /\ attempts' = [attempts EXCEPT !.pack = @ + 1]
            /\ UNCHANGED rejection
    /\ UNCHANGED <<chartOnDisk, pptCall, docFile, pptPc, html, deck, deckFile,
                   unlinkErrors, log, other>>

\* Packer.toBuffer resolved: fs.writeFileSync(outputPath, buffer), then the
\* success message
DocWrite ==
    /\ docPc = "packing"
    /\ docFile' = [kind |-> "docx", children |-> doc]
    /\ attempts' = [attempts EXCEPT !.docWrite = @ + 1]
    /\ log' = Append(log, "Word document generated")
    /\ docPc' = "done"
    /\ UNCHANGED <<data, chartOnDisk, docCall, pptCall, doc, pptPc, html, deck,
                   deckFile, unlinkErrors, rejection, other>>

\* `await Packer.toBuffer(doc)` rejects: generateWordReport rejects with it
DocPackFails ==
    /\ docPc = "packing"
    /\ docPc' = "rejected"
    /\ rejection' = [rejection EXCEPT !.doc = "Packer.toBuffer"]
    /\ UNCHANGED <<data, chartOnDisk, docCall, pptCall, doc, docFile, pptPc,
                   html, deck, deckFile, unlinkErrors, log, attempts, other>>

\* fs.writeFileSync(outputPath, buffer) throws: generateWordReport rejects
DocWriteFails ==
    /\ docPc = "packing"
    /\ attempts' = [attempts EXCEPT !.docWrite = @ + 1]
    /\ docPc' = "rejected"
    /\ rejection' = [rejection EXCEPT !.doc = "fs.writeFileSync"]
    /\ UNCHANGED <<data, chartOnDisk, docCall, pptCall, doc, docFile, pptPc,
                   html, deck, deckFile, unlinkErrors, log, other>>

\* mutant: the moving averages are only compared, never formatted
pptThrowsAt_comparedOnly(d) ==
    IF d.latest_data.RSI = undefined THEN 0
    ELSE IF d.latest_data.close = undefined THEN 2
    ELSE IF Len(d.exchange_results) = 0 THEN 3
    ELSE 9

\* the statement of the synchronous part of generatePresentation that throws
\* a TypeError: 0 for generateBuySellHold (rsi.toFixed), 2 for the markup of
\* slide 2 (close.toFixed), 3 for the markup of slide 3 (exchange_results[0]
\* of an empty list), 6 for the markup of slide 6 (SMA_short.toFixed,
\* SMA_long.toFixed), 9 when none throws.  The comparison of the moving
\* averages on slide 2 throws nothing.
pptThrowsAt(d) ==
    IF d.latest_data.RSI = undefined THEN 0
    ELSE IF d.latest_data.close = undefined THEN 2
    ELSE IF Len(d.exchange_results) = 0 THEN 3
    ELSE IF \/ d.latest_data.SMA_short = undefined
            \/ d.latest_data.SMA_long = undefined THEN 6
    ELSE 9

\* generatePresentation up to its first await: the signal is derived, the
\* slide files are written one after the other, the pptxgen object is
\* created; a throw rejects the promise and leaves the files written so far
PptStart ==
    /\ pptPc = "idle"
    /\ LET t == pptThrowsAt(data)
       IN  /\ pptCall' = IF t = 0 THEN pptCall
                         ELSE pptGenerateBuySellHold(data.suggestions,
                                                     data.latest_data)
           /\ html' = [i \in 1..8 |->
                         IF i < t THEN writeSlides(data, pptCall'.ret)[i]
                         ELSE html[i]]
           /\ pptPc' = IF t = 9 THEN "convert" ELSE "rejected"
           /\ rejection' = IF t = 9 THEN rejection
                           ELSE [rejection EXCEPT !.ppt = "TypeError"]
    /\ deck' = <<>>
    /\ UNCHANGED <<data, chartOnDisk, docCall, docPc, doc, docFile, deckFile,
                   unlinkErrors, log, attempts, other>>

\* one `await html2pptx(...)` resolves: the file is read and the next slide is
\* added to the deck; the chart slide gets the image when the chart file
\* exists
PptConvert ==
    /\ pptPc = "convert"
    /\ LET k == Len(deck) + 1
       IN  /\ html[slideFile(k)].kind # "absent"
           /\ deck' = Append(deck, [markup |-> html[slideFile(k)],
                                    image  |-> addsImage(k, chartOnDisk)])
           /\ attempts' = [attempts EXCEPT !.convert[k] = @ + 1]
           /\ pptPc' = IF k = 8 THEN "write" ELSE "convert"
    /\ UNCHANGED <<data, chartOnDisk, docCall, pptCall, docPc, doc, docFile,
                   html, deckFile, unlinkErrors, log, rejection, other>>

\* mutant: the deck file is written as soon as seven slides are in the deck
PptWriteFile_afterSeven ==
    /\ pptPc = "convert"
    /\ Len(deck) = 7
    /\ deckFile' = [kind |-> "pptx", slides |-> deck]
    /\ attempts' = [attempts EXCEPT !.deckWrite = @ + 1]
    /\ log' = Append(log, "PowerPoint presentation generated")
    /\ pptPc' = "cleanup"
    /\ UNCHANGED <<data, chartOnDisk, docCall, pptCall, docPc, doc, docFile,
                   html, deck, unlinkErrors, rejection, other>>

\* `await pptx.writeFile(outputPath)` resolves: the deck file is written, then
\* the success message
PptWriteFile ==
    /\ pptPc = "write"
    /\ deckFile' = [kind |-> "pptx", slides |-> deck]
    /\ attempts' = [attempts EXCEPT !.deckWrite = @ + 1]
    /\ log' = Append(log, "PowerPoint presentation generated")
    /\ pptPc' = "cleanup"
    /\ UNCHANGED <<data, chartOnDisk, docCall, pptCall, docPc, doc, docFile,
                   html, deck, unlinkErrors, rejection, other>>

\* mutant: the first unlink that throws ends the loop
cleanUp_stopAtFirst(files, failing) ==
    [i \in 1..8 |-> IF \E j \in failing : j <= i THEN files[i] ELSE NoFile]

\* the files left by the loop `for i = 1..8: try { unlinkSync } catch {}` when
\* the unlinks of the files in `failing` throw: each throw is caught inside
\* the loop body, so the other files are unlinked
cleanUp(files, failing) ==
    [i \in 1..8 |-> IF i \in failing THEN files[i] ELSE NoFile]

\* the clean-up loop when every unlink succeeds
PptCleanup ==
    /\ pptPc = "cleanup"
    /\ html' = cleanUp(html, {})
    /\ pptPc' = "done"
    /\ UNCHANGED <<data, chartOnDisk, docCall, pptCall, docPc, doc, docFile,
                   deck, deckFile, unlinkErrors, log, attempts, rejection,
                   other>>

\* at most n of the eight slide files
UnlinkErrorSets(n) ==
    { F \in SUBSET (1..8) : F # {} /\ Cardinality(F) <= n }

\* the clean-up loop when some unlinks throw
PptCleanupPartial ==
    /\ pptPc = "cleanup"
    /\ \E failing \in UnlinkErrorSets(MaxUnlinkErrors) :
         /\ unlinkErrors' = failing
         /\ html' = cleanUp(html, failing)
    /\ pptPc' = "done"
    /\ UNCHANGED <<data, chartOnDisk, docCall, pptCall, docPc, doc, docFile,
                   deck, deckFile, log, attempts, rejection, other>>

\* an `await html2pptx(...)` rejects: generatePresentation rejects with it
PptConvertFails ==
    /\ pptPc = "convert"
    /\ attempts' = [attempts EXCEPT !.convert[Len(deck) + 1] = @ + 1]
    /\ pptPc' = "rejected"
    /\ rejection' = [rejection EXCEPT !.ppt = "html2pptx"]
    /\ UNCHANGED <<data, chartOnDisk, docCall, pptCall, docPc, doc, docFile,
                   html, deck, deckFile, unlinkErrors, log, other>>

\* mutant: a rejected pptx.writeFile is caught and the write is tried again
PptWriteFileFails_retry ==
    /\ pptPc = "write"
    /\ attempts.deckWrite < 2
    /\ attempts' = [attempts EXCEPT !.deckWrite = @ + 1]
    /\ UNCHANGED <<data, chartOnDisk, docCall, pptCall, docPc, doc, docFile,
                   pptPc, html, deck, deckFile, unlinkErrors, log, rejection,
                   other>>

\* `await pptx.writeFile(outputPath)` rejects: generatePresentation rejects
PptWriteFileFails ==
    /\ pptPc = "write"
    /\ attempts' = [attempts EXCEPT !.deckWrite = @ + 1]
    /\ pptPc' = "rejected"
    /\ rejection' = [rejection EXCEPT !.ppt = "pptx.writeFile"]
    /\ UNCHANGED <<data, chartOnDisk, docCall, pptCall, docPc, doc, docFile,
                   html, deck, deckFile, unlinkErrors, log, other>>

Next ==
    \/ DocCreate
    \/ DocWrite
    \/ PptStart
    \/ PptConvert
    \/ PptWriteFile
    \/ PptCleanup

Spec ==
    Init /\ [][Next]_vars

---------------------------------------------------------------------------
(* Malformed bundles and failing back ends: SpecFault *)

\* latest_data complete, or with one of its four numbers missing
FaultLatestData ==
    LET full == [close |-> 110059990, RSI |-> 50000,
                 SMA_short |-> 105000000, SMA_long |-> 98000000]
    IN  { full,
          [full EXCEPT !.close = undefined],
          [full EXCEPT !.RSI = undefined],
          [full EXCEPT !.SMA_short = undefined],
          [full EXCEPT !.SMA_long = undefined] }

\* exchange lists of the bundles of SpecFault
FaultExchangeLists ==
    { <<>>, <<binance, kucoin>> }

InitFault ==
    /\ \E exs \in FaultExchangeLists, ld \in FaultLatestData :
          data = [symbol |-> "BTC/USDT",
                  exchange_results |-> exs,
                  suggestions |-> <<sugBullishCrossover, sugDeathCrossWarning>>,
                  latest_data |-> ld,
                  chart_path |-> "chart.png"]
    /\ chartOnDisk \in BOOLEAN
    /\ docCall = NoCall
    /\ pptCall = NoCall
    /\ docPc = "idle"
    /\ doc = <<>>
    /\ docFile = NoFile
    /\ pptPc = "idle"
    /\ html = [i \in 1..8 |-> NoFile]
    /\ deck = <<>>
    /\ deckFile = NoFile
    /\ unlinkErrors = {}
    /\ log = <<>>
    /\ attempts = NoAttempts
    /\ rejection = NoRejection
    /\ other = NotInvoked

NextFault ==
    \/ Next
    \/ PptCleanupPartial
    \/ PptConvertFails
    \/ PptWriteFileFails
    \/ DocPackFails
    \/ DocWriteFails

SpecFault ==
    InitFault /\ [][NextFault]_vars

---------------------------------------------------------------------------
(* The signal deriver on its own: SpecSignal *)

InitSignal ==
    /\ \E sugs \in SeqsUpTo(SuggestionPool, MaxSuggestions),
          r \in RSIValues, c \in CloseValues, sma \in SMAPairs :
          data = [symbol |-> "BTC/USDT",
                  exchange_results |-> <<binance, kucoin, bybit, gate>>,
                  suggestions |-> sugs,
                  latest_data |-> [close |-> c, RSI |-> r,
                                   SMA_short |-> sma[1], SMA_long |-> sma[2]],
                  chart_path |-> "chart.png"]
    /\ chartOnDisk = FALSE
    /\ docCall = NoCall
    /\ pptCall = NoCall
    /\ docPc = "idle"
    /\ doc = <<>>
    /\ docFile = NoFile
    /\ pptPc = "idle"
    /\ html = [i \in 1..8 |-> NoFile]
    /\ deck = <<>>
    /\ deckFile = NoFile
    /\ unlinkErrors = {}
    /\ log = <<>>
    /\ attempts = NoAttempts
    /\ rejection = NoRejection
    /\ other = NotInvoked

\* a caller of the document copy
DocSignal ==
    /\ docCall' = docGenerateBuySellHold(data.suggestions, data.latest_data)
    /\ UNCHANGED <<data, pptCall, renderVars>>

\* a caller of the slide copy
PptSignal ==
    /\ pptCall' = pptGenerateBuySellHold(data.suggestions, data.latest_data)
    /\ UNCHANGED <<data, docCall, renderVars>>

\* the upstream pipeline refreshes price and moving averages, RSI unchanged
Reprice ==
    /\ \E c \in CloseValues, sma \in SMAPairs :
          data' = [data EXCEPT !.latest_data.close = c,
                               !.latest_data.SMA_short = sma[1],
                               !.latest_data.SMA_long = sma[2]]
    /\ data' # data
    /\ UNCHANGED <<docCall, pptCall, renderVars>>

NextSignal ==
    \/ DocSignal
    \/ PptSignal
    \/ Reprice

SpecSignal ==
    InitSignal /\ [][NextSignal]_vars

---------------------------------------------------------------------------
(* The hard-coded document variant (second script of                       *)
(* presentation_generator.js): the color of its recommendation run         *)

variantColor(signal) ==
    IF signal = "BUY" THEN "2ECC71"
    ELSE IF signal = "SELL" THEN "E74C3C"
    ELSE "F39C12"

---------------------------------------------------------------------------
(* Vocabulary of the properties *)

BullishMarkers ==
    { BULLISH, GoldenCross, oversold }

BearishMarkers ==
    { BEARISH, DeathCross, overbought }

\* number of suggestions that contain at least one of the markers
SuggestionsWith(suggestions, markers) ==
    Cardinality({ i \in 1..Len(suggestions) :
                    \E m \in markers : includes(suggestions[i], m) })

\* number of places of s where m occurs
Occurrences(s, m) ==
    Cardinality({ i \in 0..(Len(s) - Len(m)) :
                    SubSeq(s, i + 1, i + Len(m)) = m })

RECURSIVE OccurrencesOfAny(_, _)
\* number of places of s where one of the markers occurs
OccurrencesOfAny(s, markers) ==
    IF markers = {} THEN 0
    ELSE LET m == CHOOSE x \in markers : TRUE
         IN  Occurrences(s, m) + OccurrencesOfAny(s, markers \ {m})

RECURSIVE MarkerOccurrencesFrom(_, _, _)
\* number of occurrences of the markers in suggestions i, i + 1, ...
MarkerOccurrencesFrom(suggestions, i, markers) ==
    IF i > Len(suggestions) THEN 0
    ELSE OccurrencesOfAny(suggestions[i], markers)
         + MarkerOccurrencesFrom(suggestions, i + 1, markers)

\* number of occurrences of the markers across all suggestion strings
MarkerOccurrences(suggestions, markers) ==
    MarkerOccurrencesFrom(suggestions, 1, markers)

\* the decision of the specification on an RSI and two counts
BuyCondition(rsi, bullish_count, bearish_count) ==
    rsi < 30000 \/ bullish_count > bearish_count

SellCondition(rsi, bullish_count, bearish_count) ==
    rsi > 70000 \/ bearish_count > bullish_count

\* a returned frame follows the rule on its own counters
FollowsRule(call) ==
    call.called =>
      LET rec  == call.ret.recommendation
          buy  == BuyCondition(data.latest_data.RSI, call.bullish_signals,
                               call.bearish_signals)
          sell == SellCondition(data.latest_data.RSI, call.bullish_signals,
                                call.bearish_signals)
      IN  /\ rec \in {"BUY", "SELL", "HOLD"}
          /\ (rec = "BUY") <=> buy
          /\ (rec = "SELL") <=> (~buy /\ sell)
          /\ (rec = "HOLD") <=> (~buy /\ ~sell)

BothCalled ==
    docCall.called /\ pptCall.called

---------------------------------------------------------------------------
(* C1 .. C7: the signal deriver, under SpecSignal *)

\* C1: both copies of generateBuySellHold return BUY exactly when RSI < 30 or
\* bullish_signals > bearish_signals, otherwise SELL exactly when RSI > 70 or
\* bearish_signals > bullish_signals, otherwise HOLD; never anything else.
C1_DecisionRule ==
    FollowsRule(docCall) /\ FollowsRule(pptCall)

\* both copies returned SELL on the counters alone, RSI being neutral
C1_Witness ==
    /\ BothCalled
    /\ data.latest_data.RSI = 50000
    /\ docCall.bearish_signals > docCall.bullish_signals
    /\ docCall.ret.recommendation = "SELL"
    /\ pptCall.ret.recommendation = "SELL"

StrictAt(call) ==
    (call.called /\ call.bullish_signals = call.bearish_signals) =>
      /\ data.latest_data.RSI = 30000 => call.ret.recommendation = "HOLD"
      /\ data.latest_data.RSI = 70000 => call.ret.recommendation = "HOLD"
      /\ call.ret.recommendation = "BUY" => data.latest_data.RSI < 30000
      /\ call.ret.recommendation = "SELL" => data.latest_data.RSI > 70000

\* C2: with equal counters RSI exactly 30 and RSI exactly 70 give HOLD; BUY
\* needs RSI < 30 and SELL needs RSI > 70.
C2_StrictThresholds ==
    StrictAt(docCall) /\ StrictAt(pptCall)

\* RSI is exactly 30, the counters tie at one each, both copies returned HOLD
C2_Witness ==
    /\ BothCalled
    /\ data.latest_data.RSI = 30000
    /\ docCall.bullish_signals = 1
    /\ docCall.bearish_signals = 1
    /\ docCall.ret.recommendation = "HOLD"
    /\ pptCall.ret.recommendation = "HOLD"

TieHolds(call) ==
    ( /\ call.called
      /\ SuggestionsWith(data.suggestions, BullishMarkers)
           = SuggestionsWith(data.suggestions, BearishMarkers)
      /\ data.latest_data.RSI >= 30000
      /\ data.latest_data.RSI <= 70000 )
    => call.ret.recommendation = "HOLD"

\* C3: when as many suggestions carry a bullish marker as carry a bearish one
\* and 30 <= RSI <= 70, the recommendation is HOLD.
C3_TieIsHold ==
    TieHolds(docCall) /\ TieHolds(pptCall)

\* "BULLISH crossover" and "Death Cross warning" at RSI 50 gave HOLD
C3_Witness ==
    /\ BothCalled
    /\ data.suggestions = <<sugBullishCrossover, sugDeathCrossWarning>>
    /\ data.latest_data.RSI = 50000
    /\ docCall.ret.recommendation = "HOLD"
    /\ pptCall.ret.recommendation = "HOLD"

NoMarker(suggestions) ==
    \A i \in 1..Len(suggestions) :
      \A m \in BullishMarkers \cup BearishMarkers :
        ~includes(suggestions[i], m)

RSIAlone(call) ==
    (call.called /\ NoMarker(data.suggestions)) =>
      /\ call.bullish_signals = 0
      /\ call.bearish_signals = 0
      /\ call.ret.recommendation =
           IF data.latest_data.RSI < 30000 THEN "BUY"
           ELSE IF data.latest_data.RSI > 70000 THEN "SELL"
           ELSE "HOLD"

\* C4: on an empty suggestion list, and on any list without a marker, both
\* counters are zero and the call returns BUY if RSI < 30, SELL if RSI > 70,
\* HOLD otherwise.
C4_RSIAloneDecides ==
    RSIAlone(docCall) /\ RSIAlone(pptCall)

\* the empty list at RSI 29.99 gave BUY
C4_Witness ==
    /\ BothCalled
    /\ data.suggestions = <<>>
    /\ data.latest_data.RSI = 29990
    /\ docCall.ret.recommendation = "BUY"
    /\ pptCall.ret.recommendation = "BUY"

\* C5: a call made after an earlier call with the same suggestions and the
\* same RSI returns the same recommendation, color and reasoning, whatever
\* close, SMA_short and SMA_long have become; and a call leaves the bundle as
\* it was.
C5_PureFunction ==
    [][ /\ ( /\ docCall.called
             /\ docCall'.called
             /\ docCall'.rsi = docCall.rsi
             /\ data'.suggestions = data.suggestions )
           => docCall'.ret = docCall.ret
        /\ ( /\ pptCall.called
             /\ pptCall'.called
             /\ pptCall'.rsi = pptCall.rsi
             /\ data'.suggestions = data.suggestions )
           => pptCall'.ret = pptCall.ret
        /\ (docCall'.called /\ ~docCall.called) => data' = data
        /\ (pptCall'.called /\ ~pptCall.called) => data' = data
        /\ (docCall.called /\ docCall' # docCall) => data' = data
        /\ (pptCall.called /\ pptCall' # pptCall) => data' = data ]_vars

\* both copies were called while SMA_short was above SMA_long, and the
\* bundle now holds moving averages the other way round and another price
C5_Witness ==
    /\ BothCalled
    /\ docCall.ma_bullish
    /\ data.latest_data.SMA_short < data.latest_data.SMA_long
    /\ data.latest_data.close = 95000500

OccurrenceCount(call) ==
    call.called =>
      /\ call.bullish_signals
           = MarkerOccurrences(data.suggestions, BullishMarkers)
      /\ call.bearish_signals
           = MarkerOccurrences(data.suggestions, BearishMarkers)

\* C6 as stated: the counters are the numbers of marker occurrences across
\* all suggestion strings, so two bullish markers in one suggestion count two.
C6_OccurrenceCount ==
    OccurrenceCount(docCall) /\ OccurrenceCount(pptCall)

PerSuggestionCount(call) ==
    call.called =>
      /\ call.bullish_signals
           = SuggestionsWith(data.suggestions, BullishMarkers)
      /\ call.bearish_signals
           = SuggestionsWith(data.suggestions, BearishMarkers)

\* C6 as amended: bullish_signals is the number of suggestions that contain
\* at least one bullish marker and bearish_signals the number that contain at
\* least one bearish marker (case-sensitive substrings); a suggestion counts
\* at most once for each side, and may count for both.
C6_PerSuggestionCount ==
    PerSuggestionCount(docCall) /\ PerSuggestionCount(pptCall)

\* "BULLISH Golden Cross" alone was counted once
C6_Witness ==
    /\ BothCalled
    /\ data.suggestions = <<sugTwoBullish>>
    /\ docCall.bullish_signals = 1
    /\ pptCall.bullish_signals = 1

\* C7: the color token the slide copy returns for a recommendation is the
\* token the document copy returns for it and the token the document variant
\* uses for it.
C7_SameColorToken ==
    BothCalled =>
      /\ pptCall.ret.recommendation = docCall.ret.recommendation
      /\ pptCall.ret.color = docCall.ret.color
      /\ docCall.ret.color = variantColor(docCall.ret.recommendation)

---------------------------------------------------------------------------
(* C8 .. C10: slide order and exchange tables, under Spec *)

SlideOrder ==
    <<"title", "executive_summary", "exchange_comparison",
      "technical_analysis", "chart", "ma_education", "rsi_education",
      "risk_disclaimer">>

KindsOf(slides) ==
    [i \in 1..Len(slides) |-> slides[i].markup.kind]

\* C8: the slides of the deck are, at every moment, the first slides of the
\* order title, executive summary, exchange comparison, technical analysis,
\* chart, moving averages, RSI, risk disclaimer; the written deck holds all
\* eight in that order, whatever the bundle and whether the chart exists.
C8_FixedSlideOrder ==
    /\ Len(deck) <= 8
    /\ KindsOf(deck) = SubSeq(SlideOrder, 1, Len(deck))
    /\ pptPc \in {"write", "cleanup", "done"} => Len(deck) = 8
    /\ deckFile.kind = "pptx" => KindsOf(deckFile.slides) = SlideOrder

\* a deck was written and cleaned up for a bundle without a chart file
C8_Witness ==
    /\ pptPc = "done"
    /\ ~chartOnDisk
    /\ deckFile.kind = "pptx"
    /\ Len(deckFile.slides) = 8
    /\ Len(data.suggestions) = 2

\* the value of a decimal digit character
DigitValue(c) ==
    CHOOSE d \in 0..9 : digitChar(d) = c

RECURSIVE ParseNumber(_)
\* the natural number a digit string denotes
ParseNumber(str) ==
    IF Len(str) = 0 THEN 0
    ELSE 10 * ParseNumber(SubSeq(str, 1, Len(str) - 1))
         + DigitValue(str[Len(str)])

\* the USDT column of the data rows does not increase from top to bottom
SortedDescending(rows) ==
    \A i, j \in 1..Len(rows) :
      i < j => ParseNumber(rows[i].usdt) >= ParseNumber(rows[j].usdt)

\* C9: the rows of the exchange comparison table of the written deck are
\* sorted by descending USDT-pair count.
C9_SlideTableSorted ==
    deckFile.kind = "pptx" =>
      SortedDescending(deckFile.slides[3].markup.rows)

\* the data rows of the exchange table of a document
DocTableRows(children) ==
    LET t == CHOOSE i \in 1..Len(children) : children[i].kind = "table"
    IN  SubSeq(children[t].rows, 2, Len(children[t].rows))

\* C10: the rows of the exchange comparison table of the written document are
\* sorted by descending USDT-pair count.
C10_DocTableSorted ==
    docFile.kind = "docx" =>
      SortedDescending(DocTableRows(docFile.children))

---------------------------------------------------------------------------
(* C11 .. C12, C16 .. C17: the two outputs of one bundle, under Spec *)

\* the index of the heading "Recommended Exchanges" of a document
RecommendedHeading(children) ==
    CHOOSE i \in 1..Len(children) :
      /\ children[i].kind = "heading2"
      /\ children[i].text = "Recommended Exchanges"

\* the bullet of a document that names the best exchange
DocBestBullet(children) ==
    children[RecommendedHeading(children) + 1]

\* the named exchange is the one of the first data row, and no row has more
\* USDT pairs than it
NamesTopRow(best, rows) ==
    /\ best.name = rows[1].name
    /\ \A i \in 1..Len(rows) :
         ParseNumber(best.usdt) >= ParseNumber(rows[i].usdt)

\* C11: in the written deck and in the written document the exchange of the
\* best-exchange sentence is the exchange of the first data row of that
\* output's table and has the largest USDT-pair count of the bundle.
C11_BestIsTopRow ==
    /\ deckFile.kind = "pptx" =>
         NamesTopRow(deckFile.slides[3].markup.best,
                     deckFile.slides[3].markup.rows)
    /\ docFile.kind = "docx" =>
         NamesTopRow(DocBestBullet(docFile.children),
                     DocTableRows(docFile.children))


\* the block that follows the "Price Chart" heading of a document
DocChartBlock(children) ==
    children[(CHOOSE i \in 1..Len(children) :
                /\ children[i].kind = "heading2"
                /\ children[i].text = "Price Chart") + 1]

\* the blocks of a document that are images
DocImages(children) ==
    { i \in 1..Len(children) : children[i].kind = "image" }

\* C12: a missing chart file is a normal branch of both assemblers.  Neither
\* generator fails on it; the written document holds, right after its "Price
\* Chart" heading, the image when the file exists and the italic
\* "Chart generation pending..." paragraph when it does not, and no image
\* anywhere else; the written deck has its eight slides, the fifth is the
\* chart slide, and it carries the image exactly when the file exists.
C12_ChartOrPlaceholder ==
    /\ docPc # "rejected"
    /\ pptPc # "rejected"
    /\ docFile.kind = "docx" =>
         LET chart == DocChartBlock(docFile.children)
         IN  /\ chartOnDisk =>
                  /\ chart.kind = "image"
                  /\ DocImages(docFile.children)
                       = { i \in 1..Len(docFile.children) :
                             docFile.children[i] = chart }
                  /\ Cardinality(DocImages(docFile.children)) = 1
             /\ ~chartOnDisk =>
                  /\ chart.kind = "paragraph"
                  /\ chart.italics
                  /\ chart.text = "Chart generation pending..."
                  /\ DocImages(docFile.children) = {}
    /\ deckFile.kind = "pptx" =>
         /\ Len(deckFile.slides) = 8
         /\ deckFile.slides[5].markup.kind = "chart"
         /\ deckFile.slides[5].markup.placeholder
         /\ deckFile.slides[5].image = chartOnDisk
         /\ \A i \in 1..8 : i # 5 => ~deckFile.slides[i].image

\* both files are written although the chart file is missing
C12_Witness ==
    /\ ~chartOnDisk
    /\ docFile.kind = "docx"
    /\ deckFile.kind = "pptx"
    /\ pptPc = "done"

\* the blocks from position a to position b of a document
Blocks(children, a, b) ==
    [i \in 1..(b - a + 1) |-> children[a + i - 1]]

\* the positions of the page breaks of a document
PageBreaks(children) ==
    { i \in 1..Len(children) : children[i].kind = "pagebreak" }

\* the first page break after position a
NextPageBreak(children, a) ==
    CHOOSE i \in PageBreaks(children) :
      i > a /\ \A j \in PageBreaks(children) : j > a => i <= j

\* the bullets under the "Recommended Exchanges" heading of a document
DocRecommendations(children) ==
    Blocks(children, RecommendedHeading(children) + 1,
           NextPageBreak(children, RecommendedHeading(children)) - 1)

\* the exchanges of a list other than `name` that support OHLCV
OtherCapable(exchange_results, name) ==
    { exchange_results[i].name : i \in
        { j \in 1..Len(exchange_results) :
            /\ exchange_results[j].supports_fetchOHLCV
            /\ exchange_results[j].name # name } }

\* C16: the recommendation bullets of a written document start with the best
\* exchange, the one no exchange of the bundle exceeds in USDT pairs, whatever
\* its OHLCV flag; every bullet after it is an 'also viable' bullet; the
\* exchanges these name are exactly the other exchanges of the bundle whose
\* OHLCV flag is true, each named once, so the bullets number one more than
\* those exchanges.
C16_BestThenViable ==
    docFile.kind = "docx" =>
      LET bullets == DocRecommendations(docFile.children)
          exs     == data.exchange_results
          others  == OtherCapable(exs, bullets[1].name)
      IN  /\ Len(bullets) >= 1
          /\ \A i \in 1..Len(bullets) : bullets[i].kind = "bullet"
          /\ bullets[1].role = "best"
          /\ \E i \in 1..Len(exs) :
               /\ exs[i].name = bullets[1].name
               /\ \A j \in 1..Len(exs) :
                    exs[i].usdt_quoted_pairs >= exs[j].usdt_quoted_pairs
          /\ \A i \in 2..Len(bullets) : bullets[i].role = "viable"
          /\ { bullets[i].name : i \in 2..Len(bullets) } = others
          /\ Len(bullets) = 1 + Cardinality(others)

\* a document is written for a bundle that holds, besides the best exchange,
\* one exchange with the OHLCV flag and one without
C16_Witness ==
    /\ docFile.kind = "docx"
    /\ Len(DocRecommendations(docFile.children)) = 2
    /\ Len(data.exchange_results) = 3
    /\ \E i \in 2..3 : ~data.exchange_results[i].supports_fetchOHLCV

\* the kinds of the blocks from position a to position b of a document
KindsFrom(children, a, b) ==
    [i \in 1..(b - a + 1) |-> children[a + i - 1].kind]

\* the three page breaks of a document, in order
FirstBreak(children) ==
    NextPageBreak(children, 0)
SecondBreak(children) ==
    NextPageBreak(children, FirstBreak(children))
ThirdBreak(children) ==
    NextPageBreak(children, SecondBreak(children))

\* the blocks of the technical analysis of m suggestions: a heading and a
\* paragraph each, from position a on
TechnicalBlocks(children, a, m) ==
    \A j \in 1..m :
      /\ children[a + 2 * j - 2].kind = "heading3"
      /\ children[a + 2 * j - 1].kind = "paragraph"

\* C17: every written document has the same section order.  It has exactly
\* three page breaks.  Before the first: title, subtitle, the executive
\* summary heading, the recommendation line, the reasoning paragraph, the
\* metrics heading and the metrics table.  Between the first and the second:
\* the exchange comparison heading and lead, the table, the recommendations
\* heading and its bullets.  Between the second and the third: the technical
\* analysis heading, one heading and one paragraph per suggestion, the price
\* chart heading and the image or the placeholder.  After the third: the
\* heading, the lead and the 23 blocks of the educational content.
C17_FixedSectionOrder ==
    docFile.kind = "docx" =>
      LET c  == docFile.children
          m  == Len(data.suggestions)
          p1 == FirstBreak(c)
          p2 == SecondBreak(c)
          p3 == ThirdBreak(c)
      IN  /\ Cardinality(PageBreaks(c)) = 3
          /\ KindsFrom(c, 1, p1 - 1)
               = <<"title", "subtitle", "heading1", "recommendation",
                   "paragraph", "heading2", "metrics">>
          /\ c[3].text = "Executive Summary"
          /\ KindsFrom(c, p1 + 1, p1 + 4)
               = <<"heading1", "paragraph", "table", "heading2">>
          /\ c[p1 + 1].text = "Exchange Comparison"
          /\ c[p1 + 4].text = "Recommended Exchanges"
          /\ p2 > p1 + 5
          /\ \A i \in (p1 + 5)..(p2 - 1) : c[i].kind = "bullet"
          /\ c[p2 + 1].kind = "heading1"
          /\ c[p2 + 1].text = "Detailed Technical Analysis"
          /\ TechnicalBlocks(c, p2 + 2, m)
          /\ p3 = p2 + 2 * m + 4
          /\ c[p3 - 2].kind = "heading2"
          /\ c[p3 - 2].text = "Price Chart"
          /\ c[p3 - 1].kind \in {"image", "paragraph"}
          /\ KindsFrom(c, p3 + 1, p3 + 2) = <<"heading1", "paragraph">>
          /\ c[p3 + 1].text = "Understanding Technical Indicators"
          /\ Len(c) = p3 + 2 + 23
          /\ c[p3 + 3].text = "Moving Averages (MA)"
          /\ c[Len(c)].text = "Consider market sentiment"

\* documents are written for bundles that differ in the number of suggestions
\* and of exchanges: here two suggestions and three exchanges
C17_Witness ==
    /\ docFile.kind = "docx"
    /\ Len(data.suggestions) = 2
    /\ Len(data.exchange_results) = 3
    /\ Len(docFile.children) > 40

---------------------------------------------------------------------------
(* Suggestions with labels and keywords: SpecText *)

\* "WARNING: RSI overheated"
sugWarning ==
    <<"W", "A", "R", "N", "I", "N", "G", ":", " ", "R", "S", "I", " ", "o",
      "v", "e", "r", "h", "e", "a", "t", "e", "d">>
\* "OPPORTUNITY: buy the dip"
sugOpportunity ==
    <<"O", "P", "P", "O", "R", "T", "U", "N", "I", "T", "Y", ":", " ", "b",
      "u", "y", " ", "t", "h", "e", " ", "d", "i", "p">>
\* "CURRENT TREND: long-term uptrend"
sugCurrentTrend ==
    <<"C", "U", "R", "R", "E", "N", "T", " ", "T", "R", "E", "N", "D", ":",
      " ", "l", "o", "n", "g", "-", "t", "e", "r", "m", " ", "u", "p", "t",
      "r", "e", "n", "d">>
\* "WARNING: TREND is weak"
sugWarningTrend ==
    <<"W", "A", "R", "N", "I", "N", "G", ":", " ", "T", "R", "E", "N", "D",
      " ", "i", "s", " ", "w", "e", "a", "k">>
\* "OPPORTUNITY: WARNING lifted"
sugOpportunityWarning ==
    <<"O", "P", "P", "O", "R", "T", "U", "N", "I", "T", "Y", ":", " ", "W",
      "A", "R", "N", "I", "N", "G", " ", "l", "i", "f", "t", "e", "d">>
\* "WARNING: BEARISH cross"
sugWarningBearish ==
    <<"W", "A", "R", "N", "I", "N", "G", ":", " ", "B", "E", "A", "R", "I",
      "S", "H", " ", "c", "r", "o", "s", "s">>
\* "SIGNAL: BULLISH after BEARISH"
sugSignalBoth ==
    <<"S", "I", "G", "N", "A", "L", ":", " ", "B", "U", "L", "L", "I", "S",
      "H", " ", "a", "f", "t", "e", "r", " ", "B", "E", "A", "R", "I", "S",
      "H">>

\* labelled and unlabelled suggestions, with one keyword, several or none
TextPool ==
    { sugWarning, sugOpportunity, sugCurrentTrend, sugWarningTrend,
      sugOpportunityWarning, sugWarningBearish, sugSignalBoth, sugMomentum,
      sugGoldenCrossConfirmed }

InitText ==
    /\ \E sugs \in SeqsUpTo(TextPool, MaxSuggestions) :
          data = [symbol |-> "BTC/USDT",
                  exchange_results |-> <<kucoin, binance>>,
                  suggestions |-> sugs,
                  latest_data |-> [close |-> 110059990, RSI |-> 50000,
                                   SMA_short |-> 105000000,
                                   SMA_long |-> 98000000],
                  chart_path |-> "chart.png"]
    /\ chartOnDisk = TRUE
    /\ docCall = NoCall
    /\ pptCall = NoCall
    /\ docPc = "idle"
    /\ doc = <<>>
    /\ docFile = NoFile
    /\ pptPc = "idle"
    /\ html = [i \in 1..8 |-> NoFile]
    /\ deck = <<>>
    /\ deckFile = NoFile
    /\ unlinkErrors = {}
    /\ log = <<>>
    /\ attempts = NoAttempts
    /\ rejection = NoRejection
    /\ other = NotInvoked

SpecText ==
    InitText /\ [][Next]_vars

---------------------------------------------------------------------------
(* C13 .. C15: the suggestions in the document and on the slide, SpecText *)

\* the heading the priority WARNING, OPPORTUNITY, TREND, default gives s
PriorityHeading(s) ==
    IF includes(s, WARNING) THEN "Warning"
    ELSE IF includes(s, OPPORTUNITY) THEN "Opportunity"
    ELSE IF includes(s, TREND) THEN "Current Trend"
    ELSE "Technical Signal"

\* the heading of the j-th suggestion in a document
DocSuggestionHeading(children, j) ==
    children[SecondBreak(children) + 2 * j]

\* C13: in a written document the heading of every suggestion follows the
\* priority WARNING, then OPPORTUNITY, then TREND, then "Technical Signal":
\* a suggestion containing WARNING is headed "Warning" whatever else it
\* contains, and so on down the list.
C13_HeadingPriority ==
    docFile.kind = "docx" =>
      \A j \in 1..Len(data.suggestions) :
        LET h == DocSuggestionHeading(docFile.children, j)
        IN  /\ h.kind = "heading3"
            /\ h.text = PriorityHeading(data.suggestions[j])

\* t is what is left of s when some characters are cut from its front
IsSuffix(t, s) ==
    /\ Len(t) <= Len(s)
    /\ t = SubSeq(s, Len(s) - Len(t) + 1, Len(s))

\* the bullets of the technical-analysis slide of a deck
SlideBullets(slides) ==
    slides[4].markup.bullets

\* C14: the technical-analysis slide of a written deck has one bullet per
\* suggestion, in the order of the suggestions.  The bullet of a suggestion
\* has exactly one tag: the green circle when the suggestion contains BULLISH,
\* else the red circle when it contains BEARISH, else the warning sign when it
\* contains WARNING, else the chart emoji.
C14_EmojiByFirstMatch ==
    deckFile.kind = "pptx" =>
      LET bullets == SlideBullets(deckFile.slides)
      IN  /\ deckFile.slides[4].markup.kind = "technical_analysis"
          /\ Len(bullets) = Len(data.suggestions)
          /\ \A j \in 1..Len(bullets) :
               LET s == data.suggestions[j]
                   t == bullets[j].type
               IN  /\ IsSuffix(bullets[j].text, s)
                   /\ t \in {"green circle", "red circle", "warning sign",
                             "chart"}
                   /\ t = "green circle" <=> includes(s, BULLISH)
                   /\ t = "red circle" <=>
                        ~includes(s, BULLISH) /\ includes(s, BEARISH)
                   /\ t = "warning sign" <=>
                        /\ ~includes(s, BULLISH)
                        /\ ~includes(s, BEARISH)
                        /\ includes(s, WARNING)

\* a deck is written for a suggestion that holds BEARISH and WARNING, after one
\* that holds BULLISH and BEARISH
C14_Witness ==
    /\ deckFile.kind = "pptx"
    /\ data.suggestions = <<sugSignalBoth, sugWarningBearish>>
    /\ SlideBullets(deckFile.slides)[1].type = "green circle"
    /\ SlideBullets(deckFile.slides)[2].type = "red circle"

\* the length of the label s starts with: capital words separated by single
\* spaces and followed by ": "; 0 when s starts with no label
LabelLength(s) ==
    LET ends == { k \in 1..Len(s) :
                    /\ Len(s) >= k + 2
                    /\ s[k + 1] = ":"
                    /\ s[k + 2] = " "
                    /\ s[1] \in UpperCase
                    /\ s[k] \in UpperCase
                    /\ \A i \in 1..k : s[i] \in UpperCase \cup {" "}
                    /\ \A i \in 1..(k - 1) : ~(s[i] = " " /\ s[i + 1] = " ") }
    IN  IF ends = {} THEN 0
        ELSE CHOOSE k \in ends : \A j \in ends : k <= j

\* s without the label it starts with
WithoutLabel(s) ==
    IF LabelLength(s) = 0 THEN s
    ELSE SubSeq(s, LabelLength(s) + 3, Len(s))

\* C15: on the technical-analysis slide of a written deck the bullet of every
\* suggestion is the suggestion without its leading label, the label being
\* one capital word or several ("CURRENT TREND: "); a suggestion that starts
\* with no label is shown as it is.
C15_LabelStripped ==
    deckFile.kind = "pptx" =>
      \A j \in 1..Len(data.suggestions) :
        SlideBullets(deckFile.slides)[j].text
          = WithoutLabel(data.suggestions[j])

---------------------------------------------------------------------------
(* C18 .. C20: failures, under SpecFault *)

\* no slide file is on disk
NoSlideFile ==
    \A i \in 1..8 : html[i].kind = "absent"

\* C18: a generatePresentation that succeeds writes the deck file, with the
\* eight slides, while all its slide files are still on disk, and deletes the
\* slide files afterwards.  An unlink that throws never makes the call fail,
\* and every slide file whose unlink did not throw is gone when the call has
\* resolved, also those that come after a failing one.
C18_BestEffortCleanup ==
    /\ pptPc \in {"convert", "write"} =>
         /\ deckFile.kind = "absent"
         /\ \A i \in 1..8 : html[i].kind # "absent"
    /\ pptPc = "cleanup" =>
         /\ deckFile.kind = "pptx"
         /\ \A i \in 1..8 : html[i].kind # "absent"
    /\ unlinkErrors # {} => pptPc = "done"
    /\ pptPc = "done" =>
         /\ deckFile.kind = "pptx"
         /\ Len(deckFile.slides) = 8
         /\ \A i \in 1..8 : i \notin unlinkErrors => html[i].kind = "absent"

\* the call has resolved although the unlink of slide3.html threw; the later
\* slide files are gone
C18_Witness ==
    /\ pptPc = "done"
    /\ unlinkErrors = {3}
    /\ html[3].kind # "absent"
    /\ \A i \in 4..8 : html[i].kind = "absent"
    /\ deckFile.kind = "pptx"

\* C19: whenever generatePresentation has rejected, none of the slide files
\* it wrote is left on disk.
C19_CleanupOnFailure ==
    pptPc = "rejected" => NoSlideFile

\* latest_data lacks one of its four numbers
MissingNumber ==
    \/ data.latest_data.close = undefined
    \/ data.latest_data.RSI = undefined
    \/ data.latest_data.SMA_short = undefined
    \/ data.latest_data.SMA_long = undefined

\* C20: for a bundle whose latest_data lacks close, RSI, SMA_short or
\* SMA_long, neither generator gets past its synchronous part: a started
\* generateWordReport or generatePresentation has rejected, and neither the
\* document nor the deck is ever written.
C20_MalformedIsFatal ==
    MissingNumber =>
      /\ docPc \in {"idle", "rejected"}
      /\ pptPc \in {"idle", "rejected"}
      /\ docFile.kind = "absent"
      /\ deckFile.kind = "absent"
      /\ doc = <<>>
      /\ deck = <<>>

\* both generators have rejected for a bundle without SMA_long
C20_Witness ==
    /\ data.latest_data.SMA_long = undefined
    /\ data.latest_data.SMA_short # undefined
    /\ docPc = "rejected"
    /\ pptPc = "rejected"

\* the messages that report success
DocSuccess ==
    "Word document generated"
DeckSuccess ==
    "PowerPoint presentation generated"

\* message m has been logged
Logged(m) ==
    \E i \in 1..Len(log) : log[i] = m

\* C21: a failing back end is reported to the caller and not tried again.
\* No back-end call (packing, writing the document, converting a slide,
\* writing the deck) is ever made twice.  A generator whose back-end call
\* failed has rejected with that failure, has made that call once, has left
\* its output file unwritten and its success message unlogged; and a
\* generator never rejects without a failure.
C21_FailurePropagates ==
    /\ attempts.pack <= 1
    /\ attempts.docWrite <= 1
    /\ attempts.deckWrite <= 1
    /\ \A k \in 1..8 : attempts.convert[k] <= 1
    /\ (docPc = "rejected") <=> (rejection.doc # "none")
    /\ (pptPc = "rejected") <=> (rejection.ppt # "none")
    /\ docPc = "rejected" => ~Logged(DocSuccess) /\ docFile.kind = "absent"
    /\ pptPc = "rejected" => ~Logged(DeckSuccess) /\ deckFile.kind = "absent"
    /\ rejection.doc = "Packer.toBuffer" =>
         attempts.pack = 1 /\ attempts.docWrite = 0
    /\ rejection.doc = "fs.writeFileSync" => attempts.docWrite = 1
    /\ rejection.ppt = "html2pptx" =>
         /\ Len(deck) < 8
         /\ attempts.convert[Len(deck) + 1] = 1
         /\ \A k \in (Len(deck) + 2)..8 : attempts.convert[k] = 0
         /\ attempts.deckWrite = 0
    /\ rejection.ppt = "pptx.writeFile" => attempts.deckWrite = 1
    /\ Logged(DocSuccess) <=> docFile.kind = "docx"
    /\ Logged(DeckSuccess) <=> deckFile.kind = "pptx"

\* writing the document and writing the deck have both failed
C21_Witness ==
    /\ rejection.doc = "fs.writeFileSync"
    /\ rejection.ppt = "pptx.writeFile"
    /\ Len(deck) = 8
    /\ log = <<>>

---------------------------------------------------------------------------
(* C22 .. C23: the bundle the two generators share, under Spec *)

\* C22: no step of generateWordReport or generatePresentation changes the
\* bundle: exchange_results keeps its elements and their order, suggestions
\* and latest_data stay as they are.
C22_BundleImmutable ==
    [][data' = data]_vars

\* the slide markup generatePresentation writes when called on bundle d
PlannedSlides(d) ==
    writeSlides(d, pptGenerateBuySellHold(d.suggestions, d.latest_data).ret)

\* the blocks generateWordReport packs when called on bundle d
PlannedDocument(d) ==
    createDocument(d, chartOnDisk).children

\* C23: the two generators do not influence each other.  A step of
\* generateWordReport changes neither the slide files, the deck and the deck
\* file nor, as long as generatePresentation has not been called, the slides
\* it is going to produce from the bundle; a step of generatePresentation
\* changes neither the document and its file nor, as long as
\* generateWordReport has not been called, the document it is going to
\* produce.  So each output is the same with the other generator run before,
\* after or not at all.
C23_Independent ==
    [][/\ docPc' # docPc =>
            /\ UNCHANGED <<html, deck, deckFile>>
            /\ pptPc = "idle" => PlannedSlides(data') = PlannedSlides(data)
       /\ pptPc' # pptPc =>
            /\ UNCHANGED <<doc, docFile>>
            /\ docPc = "idle" => PlannedDocument(data') = PlannedDocument(data)
      ]_vars

---------------------------------------------------------------------------
(* C24 .. C25, C29: the signal object, under SpecSignal *)

\* the confidence a signal object carries, as reading signal.confidence gives
ConfidenceOf(signal) ==
    IF "confidence" \in DOMAIN signal THEN signal.confidence ELSE "undefined"

\* the indicators that point the same way: the suggestions of the stronger
\* side, and the RSI when it is in that side's zone
AlignedIndicators(call) ==
    LET up   == call.bullish_signals + (IF call.rsi < 30000 THEN 1 ELSE 0)
        down == call.bearish_signals + (IF call.rsi > 70000 THEN 1 ELSE 0)
    IN  IF up >= down THEN up ELSE down

\* HIGH for three aligned indicators or more, MEDIUM for two, LOW below
ConfidenceLevel(n) ==
    IF n >= 3 THEN "HIGH" ELSE IF n = 2 THEN "MEDIUM" ELSE "LOW"

\* C24: the signal object each generator derives carries a confidence level,
\* HIGH, MEDIUM or LOW according to the number of aligned indicators.
C24_ConfidenceLevel ==
    /\ docCall.called =>
         ConfidenceOf(docCall.ret) = ConfidenceLevel(AlignedIndicators(docCall))
    /\ pptCall.called =>
         ConfidenceOf(pptCall.ret) = ConfidenceLevel(AlignedIndicators(pptCall))

\* the BUY condition and the SELL condition both hold for the bundle
Conflict ==
    LET bullish_count == SuggestionsWith(data.suggestions, BullishMarkers)
        bearish_count == SuggestionsWith(data.suggestions, BearishMarkers)
    IN  /\ BuyCondition(data.latest_data.RSI, bullish_count, bearish_count)
        /\ SellCondition(data.latest_data.RSI, bullish_count, bearish_count)

\* C25: when the BUY condition and the SELL condition both hold (RSI below 30
\* with more bearish than bullish suggestions, or RSI above 70 with more
\* bullish than bearish ones), both copies return BUY.
C25_BuyWinsConflict ==
    Conflict =>
      /\ docCall.called => docCall.ret.recommendation = "BUY"
      /\ pptCall.called => pptCall.ret.recommendation = "BUY"

\* both copies returned on an oversold RSI with a bearish majority
C25_Witness ==
    /\ BothCalled
    /\ data.latest_data.RSI < 30000
    /\ SuggestionsWith(data.suggestions, BearishMarkers)
         > SuggestionsWith(data.suggestions, BullishMarkers)
    /\ docCall.ret.recommendation = "BUY"

\* C29: the two copies of generateBuySellHold return the same recommendation
\* for the same suggestions and RSI, with the same counters behind it.
C29_CopiesAgree ==
    BothCalled =>
      /\ docCall.ret.recommendation = pptCall.ret.recommendation
      /\ docCall.bullish_signals = pptCall.bullish_signals
      /\ docCall.bearish_signals = pptCall.bearish_signals
      /\ docCall.rsi = pptCall.rsi

\* both copies returned SELL at an RSI just above 70, with no suggestion
C29_Witness ==
    /\ BothCalled
    /\ data.latest_data.RSI = 70010
    /\ data.suggestions = <<>>
    /\ docCall.ret.recommendation = "SELL"
    /\ pptCall.ret.recommendation = "SELL"

---------------------------------------------------------------------------
(* C26: the technical analysis of the document, under SpecText *)

\* the position of the block of the given kind and text in a document
PositionOf(children, kind, text) ==
    CHOOSE i \in 1..Len(children) :
      children[i].kind = kind /\ children[i].text = text

\* the blocks createTechnicalAnalysis contributed to a document: those between
\* the "Detailed Technical Analysis" heading and the "Price Chart" heading
DocTechnical(children) ==
    Blocks(children,
           PositionOf(children, "heading1", "Detailed Technical Analysis") + 1,
           PositionOf(children, "heading2", "Price Chart") - 1)

\* C26: the technical analysis of a written document has two blocks per
\* suggestion, in the order of the suggestions: a heading, then a paragraph
\* whose text is the whole suggestion, label included.  For n suggestions it
\* has 2n blocks, none for no suggestion.
C26_TwoBlocksPerSuggestion ==
    docFile.kind = "docx" =>
      LET blocks == DocTechnical(docFile.children)
          n      == Len(data.suggestions)
      IN  /\ Len(blocks) = 2 * n
          /\ \A j \in 1..n :
               /\ blocks[2 * j - 1].kind = "heading3"
               /\ blocks[2 * j - 1].text
                    \in {"Warning", "Opportunity", "Current Trend",
                         "Technical Signal"}
               /\ blocks[2 * j].kind = "paragraph"
               /\ blocks[2 * j].text = data.suggestions[j]

\* a document is written for two labelled suggestions
C26_Witness ==
    /\ docFile.kind = "docx"
    /\ data.suggestions = <<sugCurrentTrend, sugWarning>>
    /\ Len(DocTechnical(docFile.children)) = 4
    /\ DocTechnical(docFile.children)[2].text = sugCurrentTrend


---------------------------------------------------------------------------
(* C27: the order of the steps of generatePresentation, under Spec *)

\* all eight slide files are on disk
AllSlideFiles ==
    \A i \in 1..8 : html[i].kind # "absent"

\* C27: the steps of one generatePresentation run are strictly ordered.  The
\* signal is derived in the first step only, before any slide file exists;
\* that step writes all eight slide files; a slide is added to the deck only
\* while all eight files exist, one slide per step, the k-th slide from the
\* k-th file; the deck file is written only when the deck has eight slides;
\* and a slide file disappears only after the deck file has been written.
C27_StepOrder ==
    [][/\ pptCall' # pptCall =>
            /\ pptPc = "idle"
            /\ NoSlideFile
            /\ deckFile.kind = "absent"
       /\ (\E i \in 1..8 : html[i].kind = "absent" /\ html'[i].kind # "absent")
            => /\ pptPc = "idle"
               /\ pptCall'.called
               /\ AllSlideFiles'
               /\ deck' = <<>>
       /\ deck' # deck =>
            /\ AllSlideFiles
            /\ html' = html
            /\ Len(deck') = Len(deck) + 1
            /\ SubSeq(deck', 1, Len(deck)) = deck
            /\ deck'[Len(deck')].markup = html[Len(deck')]
            /\ deckFile.kind = "absent"
       /\ deckFile' # deckFile =>
            /\ Len(deck) = 8
            /\ deckFile'.slides = deck
            /\ AllSlideFiles
            /\ html' = html
       /\ (\E i \in 1..8 : html[i].kind # "absent" /\ html'[i].kind = "absent")
            => /\ deckFile.kind = "pptx"
               /\ deckFile' = deckFile
               /\ deck' = deck
      ]_vars

\* a run has gone through all its steps
C27_Witness ==
    /\ pptPc = "done"
    /\ pptCall.called
    /\ Len(deck) = 8
    /\ deckFile.kind = "pptx"
    /\ NoSlideFile

---------------------------------------------------------------------------
(* C28: the trend in both outputs, under SpecTrend *)

\* suggestion lists of the bundles of SpecTrend
TrendSuggestionLists ==
    { <<>>, <<sugBullishCrossover>>, <<sugBearishDivergence>> }

\* RSI values of the bundles of SpecTrend, in thousandths
TrendRSIValues ==
    { 29990, 50000, 70010 }

InitTrend ==
    /\ \E sugs \in TrendSuggestionLists, r \in TrendRSIValues,
          sma \in SMAPairs :
          data = [symbol |-> "BTC/USDT",
                  exchange_results |-> <<kucoin, binance>>,
                  suggestions |-> sugs,
                  latest_data |-> [close |-> 110059990, RSI |-> r,
                                   SMA_short |-> sma[1], SMA_long |-> sma[2]],
                  chart_path |-> "chart.png"]
    /\ chartOnDisk = TRUE
    /\ docCall = NoCall
    /\ pptCall = NoCall
    /\ docPc = "idle"
    /\ doc = <<>>
    /\ docFile = NoFile
    /\ pptPc = "idle"
    /\ html = [i \in 1..8 |-> NoFile]
    /\ deck = <<>>
    /\ deckFile = NoFile
    /\ unlinkErrors = {}
    /\ log = <<>>
    /\ attempts = NoAttempts
    /\ rejection = NoRejection
    /\ other = NotInvoked

SpecTrend ==
    InitTrend /\ [][Next]_vars

\* the metrics table of a document
DocMetrics(children) ==
    children[CHOOSE i \in 1..Len(children) : children[i].kind = "metrics"]

\* the six hexadecimal digits of a color, written with or without '#'
HexDigits(color) ==
    CASE color = "#27AE60" -> "27AE60"
      [] color = "#E74C3C" -> "E74C3C"
      [] color = "#F39C12" -> "F39C12"
      [] OTHER -> color

\* the direction a trend text shows
Direction(text) ==
    CASE text \in {"up", "Bullish up"} -> "up"
      [] text \in {"down", "Bearish down"} -> "down"
      [] OTHER -> "none"

\* the trend the moving averages of the bundle stand for
TrendOfBundle ==
    IF data.latest_data.SMA_short > data.latest_data.SMA_long
    THEN [direction |-> "up", color |-> "27AE60"]
    ELSE [direction |-> "down", color |-> "E74C3C"]

\* a trend as an output shows it
Shown(trend) ==
    [direction |-> Direction(trend.text), color |-> HexDigits(trend.color)]

\* C28: the trend row of a written document and the trend tile of a written
\* deck both show up in green 27AE60 exactly when SMA_short > SMA_long and
\* down in red E74C3C otherwise, equal averages included, so the two outputs
\* of a bundle agree; and the recommendation of either copy follows from the
\* RSI and the suggestion counters alone, whatever the trend.
C28_TrendAgrees ==
    /\ docFile.kind = "docx" =>
         Shown(DocMetrics(docFile.children).trend) = TrendOfBundle
    /\ deckFile.kind = "pptx" =>
         Shown(deckFile.slides[2].markup.trend) = TrendOfBundle
    /\ FollowsRule(docCall)
    /\ FollowsRule(pptCall)

\* both outputs are written for equal moving averages and show the trend down
C28_Witness ==
    /\ data.latest_data.SMA_short = data.latest_data.SMA_long
    /\ docFile.kind = "docx"
    /\ deckFile.kind = "pptx"
    /\ DocMetrics(docFile.children).trend.text = "Bearish down"
    /\ deckFile.slides[2].markup.trend.text = "down"

---------------------------------------------------------------------------
(* Two overlapping invocations of generatePresentation: SpecOverlap *)

\* the first invocation converts a slide file that is no longer there:
\* html2pptx rejects
PptConvertMissing ==
    /\ pptPc = "convert"
    /\ html[slideFile(Len(deck) + 1)].kind = "absent"
    /\ attempts' = [attempts EXCEPT !.convert[Len(deck) + 1] = @ + 1]
    /\ pptPc' = "rejected"
    /\ rejection' = [rejection EXCEPT !.ppt = "html2pptx"]
    /\ UNCHANGED <<data, chartOnDisk, docCall, pptCall, docPc, doc, docFile,
                   html, deck, deckFile, unlinkErrors, log, other>>

\* the second invocation up to its first await: it writes its markup to the
\* same eight paths /home/claude/slide1.html .. slide8.html
OtherStart ==
    /\ other.pc = "idle"
    /\ html' = writeSlides(other.data,
                 pptGenerateBuySellHold(other.data.suggestions,
                                        other.data.latest_data).ret)
    /\ other' = [other EXCEPT !.pc = "convert", !.deck = <<>>]
    /\ UNCHANGED <<data, chartOnDisk, docCall, pptCall, docPc, doc, docFile,
                   pptPc, deck, deckFile, unlinkErrors, log, attempts,
                   rejection>>

\* one `await html2pptx(...)` of the second invocation resolves
OtherConvert ==
    /\ other.pc = "convert"
    /\ LET k == Len(other.deck) + 1
       IN  /\ html[slideFile(k)].kind # "absent"
           /\ other' = [other EXCEPT
                          !.deck = Append(@, [markup |-> html[slideFile(k)],
                                              image  |-> addsImage(k, chartOnDisk)]),
                          !.pc = IF k = 8 THEN "write" ELSE "convert"]
    /\ UNCHANGED <<data, chartOnDisk, docCall, pptCall, docPc, doc, docFile,
                   pptPc, html, deck, deckFile, unlinkErrors, log, attempts,
                   rejection>>

\* the second invocation converts a slide file that is no longer there
OtherConvertMissing ==
    /\ other.pc = "convert"
    /\ html[slideFile(Len(other.deck) + 1)].kind = "absent"
    /\ other' = [other EXCEPT !.pc = "rejected"]
    /\ UNCHANGED <<data, chartOnDisk, docCall, pptCall, docPc, doc, docFile,
                   pptPc, html, deck, deckFile, unlinkErrors, log, attempts,
                   rejection>>

\* `await pptx.writeFile(outputPath)` of the second invocation resolves
OtherWriteFile ==
    /\ other.pc = "write"
    /\ other' = [other EXCEPT
                   !.deckFile = [kind |-> "pptx", slides |-> other.deck],
                   !.pc = "cleanup"]
    /\ log' = Append(log, "PowerPoint presentation generated")
    /\ UNCHANGED <<data, chartOnDisk, docCall, pptCall, docPc, doc, docFile,
                   pptPc, html, deck, deckFile, unlinkErrors, attempts,
                   rejection>>

\* the clean-up loop of the second invocation
OtherCleanup ==
    /\ other.pc = "cleanup"
    /\ html' = cleanUp(html, {})
    /\ other' = [other EXCEPT !.pc = "done"]
    /\ UNCHANGED <<data, chartOnDisk, docCall, pptCall, docPc, doc, docFile,
                   pptPc, deck, deckFile, unlinkErrors, log, attempts,
                   rejection>>

InitOverlap ==
    /\ \E sugs \in TrendSuggestionLists :
          data = [symbol |-> "BTC/USDT",
                  exchange_results |-> <<kucoin, binance>>,
                  suggestions |-> sugs,
                  latest_data |-> [close |-> 110059990, RSI |-> 50000,
                                   SMA_short |-> 105000000,
                                   SMA_long |-> 98000000],
                  chart_path |-> "chart.png"]
    /\ chartOnDisk \in BOOLEAN
    /\ docCall = NoCall
    /\ pptCall = NoCall
    /\ docPc = "idle"
    /\ doc = <<>>
    /\ docFile = NoFile
    /\ pptPc = "idle"
    /\ html = [i \in 1..8 |-> NoFile]
    /\ deck = <<>>
    /\ deckFile = NoFile
    /\ unlinkErrors = {}
    /\ log = <<>>
    /\ attempts = NoAttempts
    /\ rejection = NoRejection
    /\ other = [NotInvoked EXCEPT !.pc = "idle"]

NextOverlap ==
    \/ PptStart
    \/ PptConvert
    \/ PptConvertMissing
    \/ PptWriteFile
    \/ PptCleanup
    \/ OtherStart
    \/ OtherConvert
    \/ OtherConvertMissing
    \/ OtherWriteFile
    \/ OtherCleanup

SpecOverlap ==
    InitOverlap /\ [][NextOverlap]_vars

\* the files an invocation with k slides in its deck still has to convert are
\* there and hold the markup of bundle d
OwnFilesFrom(k, d) ==
    \A i \in (k + 1)..8 : html[i] = PlannedSlides(d)[i]

\* every slide of the deck was made from the markup of bundle d
BuiltFrom(slides, d) ==
    \A i \in 1..Len(slides) : slides[i].markup = PlannedSlides(d)[i]

\* C30: the slide files are private to an invocation.  While an invocation is
\* converting, the files it still has to convert exist and hold its own
\* markup, and every slide of its deck and of its deck file was made from
\* its own markup.
C30_ScopedWorkingFiles ==
    /\ pptPc = "convert" => OwnFilesFrom(Len(deck), data)
    /\ other.pc = "convert" => OwnFilesFrom(Len(other.deck), other.data)
    /\ BuiltFrom(deck, data)
    /\ BuiltFrom(other.deck, other.data)
    /\ deckFile.kind = "pptx" => BuiltFrom(deckFile.slides, data)
    /\ other.deckFile.kind = "pptx" =>
         BuiltFrom(other.deckFile.slides, other.data)
===========================================================================
